---- MODULE Spec2Model ----
(***************************************************************************)
(* Model of Tarea4pilares.py: sensors with a sliding window of calibrated  *)
(* readings (Sensor.leer / promedio / en_alerta), the Alerta record and    *)
(* the GestorAlertas.evaluar_y_notificar cycle.                            *)
(*                                                                         *)
(* Readings and thresholds are integers; an average is an exact fraction   *)
(* [num, den] in lowest terms, so comparisons are the comparisons the      *)
(* floats make on these values.                                            *)
(***************************************************************************)
EXTENDS Integers, Sequences, FiniteSets, TLC

VARIABLES
    sensores,       \* GestorAlertas._sensores: sequence of sensor records
    notificadores,  \* GestorAlertas._notificadores: sequence of notifiers
    historial,      \* GestorAlertas._historial: sequence of Alerta objects
    enviados,       \* every enviar() call made so far (the printed lines)
    resultado,      \* how the last operation ended: "none", "ok", "TypeError"
    ciclos,         \* number of evaluar_y_notificar calls made (also the clock)
    traza,          \* events of the last evaluar_y_notificar call, in order
    lecturas,       \* per sensor, every raw value passed to leer, in order
    racha,          \* evaluar calls since the last leer, with the sizes then
    alertados,      \* <<cycle, sensor id>> of sensors in alert when a cycle began
    construida      \* the last direct Alerta(...) call: its arguments and outcome

vars == <<sensores, notificadores, historial, enviados, resultado, ciclos,
          traza, lecturas, racha, alertados, construida>>

----------------------------------------------------------------------------
(* Bounds *)

MaxVentana == 4          \* largest window of the single-sensor runs
MaxLecturas == 5         \* leer calls in a single-sensor run
MaxSensores == 2         \* sensors registered in a manager
MaxNotificadores == 2    \* notifiers registered in a manager
MaxCiclos == 3           \* evaluar_y_notificar calls in a manager run
MaxLecturasGestor == 3   \* leer calls in a manager run

Valores == {0 - 3, 0 - 1, 0, 2, 3}
ValoresGestor == {0, 3}
Calibraciones == {0, 1}
Umbrales == {0 - 1, 0, 2}
PresionRangos == { [min |-> 0 - 1, max |-> 1],
                   [min |-> 1, max |-> 2],
                   [min |-> 0, max |-> 0] }

----------------------------------------------------------------------------
(* Arithmetic on exact fractions *)

RECURSIVE GCD(_, _)
GCD(a, b) == IF b = 0 THEN a ELSE GCD(b, a % b)

Abs(x) == IF x < 0 THEN 0 - x ELSE x

\* the value n/d (d > 0) in lowest terms
Rat(n, d) ==
    LET g == GCD(Abs(n), d)
    IN  [num |-> n \div g, den |-> d \div g]

Cero == [num |-> 0, den |-> 1]

RatAbs(r) == [num |-> Abs(r.num), den |-> r.den]

\* r >= t and r <= t for an integer t
RatGE(r, t) == r.num >= t * r.den
RatLE(r, t) == r.num <= t * r.den

RECURSIVE Sum(_)
Sum(xs) == IF xs = <<>> THEN 0 ELSE Head(xs) + Sum(Tail(xs))

RECURSIVE SumSq(_)
SumSq(xs) == IF xs = <<>> THEN 0 ELSE Head(xs) * Head(xs) + SumSq(Tail(xs))

\* statistics.mean: the arithmetic mean; an empty input raises StatisticsError
mean(xs) ==
    IF xs = <<>> THEN [error |-> "StatisticsError"]
    ELSE Rat(Sum(xs), Len(xs))

----------------------------------------------------------------------------
(* Sensor *)

TiposSensor == {"Temperatura", "Vibracion", "Presion"}

SensorTemperatura(id, ventana, calibracion, umbral) ==
    [tipo |-> "Temperatura", id |-> id, ventana |-> ventana,
     calibracion |-> calibracion, buffer |-> <<>>, umbral |-> umbral]

SensorVibracion(id, ventana, calibracion, rms_umbral) ==
    [tipo |-> "Vibracion", id |-> id, ventana |-> ventana,
     calibracion |-> calibracion, buffer |-> <<>>, rms_umbral |-> rms_umbral]

SensorPresion(id, ventana, calibracion, presion_max, presion_min) ==
    [tipo |-> "Presion", id |-> id, ventana |-> ventana,
     calibracion |-> calibracion, buffer |-> <<>>,
     presion_max |-> presion_max, presion_min |-> presion_min]

\* Sensor.leer with the eviction test len(buffer) >= ventana
leer_evict_ge(s, valor) ==
    LET v == valor + s.calibracion
        b == Append(s.buffer, v)
    IN  [s EXCEPT !.buffer = IF Len(b) >= s.ventana THEN Tail(b) ELSE b]

\* Sensor.leer: the sensor after ingesting the raw value
leer(s, valor) ==
    LET v == valor + s.calibracion
        b == Append(s.buffer, v)
    IN  [s EXCEPT !.buffer = IF Len(b) > s.ventana THEN Tail(b) ELSE b]

\* Sensor.promedio without the empty-buffer guard
promedio_sin_guarda(s) == mean(s.buffer)

\* Sensor.promedio dividing the sum by the window size
promedio_div_ventana(s) ==
    IF s.buffer # <<>> THEN Rat(Sum(s.buffer), s.ventana) ELSE Cero

\* Sensor.promedio
promedio(s) == IF s.buffer # <<>> THEN mean(s.buffer) ELSE Cero

\* SensorTemperatura.en_alerta with a strict comparison
en_alerta_temperatura_gt(s) == ~RatLE(promedio(s), s.umbral)

\* SensorTemperatura.en_alerta
en_alerta_temperatura(s) == RatGE(promedio(s), s.umbral)

\* SensorVibracion.calcular_rms dividing by len squared
calcular_rms_len2(s) ==
    IF s.buffer # <<>>
    THEN [cuadrado |-> Rat(SumSq(s.buffer), Len(s.buffer) * Len(s.buffer))]
    ELSE [cuadrado |-> Cero]

\* SensorVibracion.calcular_rms: the non-negative root of the mean square,
\* kept as the fraction under the root
calcular_rms(s) ==
    IF s.buffer # <<>>
    THEN [cuadrado |-> Rat(SumSq(s.buffer), Len(s.buffer))]
    ELSE [cuadrado |-> Cero]

\* sqrt(x.cuadrado) >= t for an integer t
RaizGE(x, t) == t <= 0 \/ x.cuadrado.num >= t * t * x.cuadrado.den

\* SensorVibracion.en_alerta deciding on calcular_rms() instead of the average
en_alerta_vibracion_rms(s) == RaizGE(calcular_rms(s), s.rms_umbral)

\* SensorVibracion.en_alerta
en_alerta_vibracion(s) == RatGE(RatAbs(promedio(s)), s.rms_umbral)

\* SensorPresion.en_alerta with the range test left exclusive
en_alerta_presion_excl(s) ==
    ~(~RatLE(promedio(s), s.presion_min) /\ ~RatGE(promedio(s), s.presion_max))

\* SensorPresion.en_alerta
en_alerta_presion(s) ==
    ~(RatGE(promedio(s), s.presion_min) /\ RatLE(promedio(s), s.presion_max))

\* en_alerta that reports no alert until a reading has been ingested
en_alerta_con_lecturas(s) ==
    /\ s.buffer # <<>>
    /\ CASE s.tipo = "Temperatura" -> en_alerta_temperatura(s)
         [] s.tipo = "Vibracion"   -> en_alerta_vibracion(s)
         [] s.tipo = "Presion"     -> en_alerta_presion(s)

\* dynamic dispatch of Sensor.en_alerta
en_alerta(s) ==
    CASE s.tipo = "Temperatura" -> en_alerta_temperatura(s)
      [] s.tipo = "Vibracion"   -> en_alerta_vibracion(s)
      [] s.tipo = "Presion"     -> en_alerta_presion(s)

----------------------------------------------------------------------------
(* Alerta and the notifiers *)

NivelAlerta == {"NORMAL", "ADVERTENCIA", "CRITICO"}

\* Alerta is a plain class: it declares its fields but defines no __init__
\* (it is not a dataclass), so its constructor accepts no argument
AlertaCamposInit == {}

\* Alerta(sensor_id=..., mensaje=..., hora=..., nivel=...): the outcome of the
\* constructor call, an object or a raised TypeError
Alerta(sensor_id, mensaje, hora, nivel) ==
    IF {"sensor_id", "mensaje", "hora", "nivel"} \subseteq AlertaCamposInit
    THEN [raised |-> FALSE,
          obj |-> [sensor_id |-> sensor_id, mensaje |-> mensaje,
                   hora |-> hora, nivel |-> nivel]]
    ELSE [raised |-> TRUE, error |-> "TypeError"]

\* Alerta.es_critica
es_critica(a) == a.nivel = "CRITICO"

\* format(x, ".2f"): the hundredths nearest to r, ties to even
Fmt2(r) ==
    LET q == 100 * r.num
        f == q \div r.den
        resto2 == 2 * (q - f * r.den)
    IN  IF resto2 < r.den THEN f
        ELSE IF resto2 > r.den THEN f + 1
        ELSE IF f % 2 = 0 THEN f ELSE f + 1

\* f"ALERTA: Sensor {s.id} en umbral (avg={s.promedio:.2f})": the two values
\* the literal is filled with, avg in hundredths
Mensaje(s) == [sensor_id |-> s.id, avg |-> Fmt2(promedio(s))]

Canales == <<"EMAIL", "WEBHOOK", "SMS">>

\* Notificador*.enviar: the line printed by notifier n for the message
enviar(n, mensaje, ciclo) == [canal |-> n, mensaje |-> mensaje, ciclo |-> ciclo]

\* for n in self._notificadores: n.enviar(msg), from notifier j on
RECURSIVE EnviarATodos(_, _, _, _, _)
EnviarATodos(j, ns, mensaje, i, ciclo) ==
    IF j > Len(ns) THEN [enviados |-> <<>>, traza |-> <<>>]
    ELSE LET r == EnviarATodos(j + 1, ns, mensaje, i, ciclo)
         IN  [enviados |-> <<enviar(ns[j], mensaje, ciclo)>> \o r.enviados,
              traza |-> <<[tipo |-> "envio", sensor |-> i, notificador |-> j]>>
                          \o r.traza]

----------------------------------------------------------------------------
(* GestorAlertas *)

\* evaluar_y_notificar with the notifier loop run before the en_alerta test
RECURSIVE evaluar_desde_envia_siempre(_, _, _, _, _)
evaluar_desde_envia_siempre(i, ss, ns, ciclo, st) ==
    IF i > Len(ss) THEN [st EXCEPT !.resultado = "ok"]
    ELSE
        LET s == ss[i]
            msg == Mensaje(s)
            env == EnviarATodos(1, ns, msg, i, ciclo)
            st1 == [st EXCEPT !.enviados = @ \o env.enviados,
                              !.traza = @ \o env.traza]
        IN  IF ~en_alerta(s) THEN evaluar_desde_envia_siempre(i + 1, ss, ns, ciclo, st1)
            ELSE
                LET alerta == Alerta(s.id, msg, ciclo, "CRITICO")
                IN  IF alerta.raised
                    THEN [st1 EXCEPT !.resultado = alerta.error]
                    ELSE evaluar_desde_envia_siempre(i + 1, ss, ns, ciclo,
                             [st1 EXCEPT !.historial = Append(@, alerta.obj)])

\* evaluar_y_notificar building the alert as Alerta() and then assigning
\* sensor_id, mensaje and hora: nivel stays at the class default NORMAL
RECURSIVE evaluar_desde_nivel_por_defecto(_, _, _, _, _)
evaluar_desde_nivel_por_defecto(i, ss, ns, ciclo, st) ==
    IF i > Len(ss) THEN [st EXCEPT !.resultado = "ok"]
    ELSE
        LET s == ss[i]
        IN  IF ~en_alerta(s) THEN evaluar_desde_nivel_por_defecto(i + 1, ss, ns, ciclo, st)
            ELSE
                LET msg == Mensaje(s)
                    alerta == [sensor_id |-> s.id, mensaje |-> msg,
                               hora |-> ciclo, nivel |-> "NORMAL"]
                    env == EnviarATodos(1, ns, msg, i, ciclo)
                IN  evaluar_desde_nivel_por_defecto(i + 1, ss, ns, ciclo,
                        [st EXCEPT
                            !.historial = Append(@, alerta),
                            !.enviados = @ \o env.enviados,
                            !.traza = @ \o <<[tipo |-> "alerta", sensor |-> i,
                                               notificador |-> 0]>>
                                        \o env.traza])

\* evaluar_y_notificar building the alert as Alerta() with its four
\* attributes assigned, and keeping only it: self._historial = [alerta]
RECURSIVE evaluar_desde_historial_reemplazado(_, _, _, _, _)
evaluar_desde_historial_reemplazado(i, ss, ns, ciclo, st) ==
    IF i > Len(ss) THEN [st EXCEPT !.resultado = "ok"]
    ELSE
        LET s == ss[i]
        IN  IF ~en_alerta(s)
            THEN evaluar_desde_historial_reemplazado(i + 1, ss, ns, ciclo, st)
            ELSE
                LET msg == Mensaje(s)
                    alerta == [sensor_id |-> s.id, mensaje |-> msg,
                               hora |-> ciclo, nivel |-> "CRITICO"]
                    env == EnviarATodos(1, ns, msg, i, ciclo)
                IN  evaluar_desde_historial_reemplazado(i + 1, ss, ns, ciclo,
                        [st EXCEPT
                            !.historial = <<alerta>>,
                            !.enviados = @ \o env.enviados,
                            !.traza = @ \o <<[tipo |-> "alerta", sensor |-> i,
                                               notificador |-> 0]>>
                                        \o env.traza])

\* evaluar_y_notificar with the notifier loop placed before the Alerta is
\* constructed and appended
RECURSIVE evaluar_desde_envia_antes(_, _, _, _, _)
evaluar_desde_envia_antes(i, ss, ns, ciclo, st) ==
    IF i > Len(ss) THEN [st EXCEPT !.resultado = "ok"]
    ELSE
        LET s == ss[i]
        IN  IF ~en_alerta(s) THEN evaluar_desde_envia_antes(i + 1, ss, ns, ciclo, st)
            ELSE
                LET msg == Mensaje(s)
                    env == EnviarATodos(1, ns, msg, i, ciclo)
                    st1 == [st EXCEPT !.enviados = @ \o env.enviados,
                                      !.traza = @ \o env.traza]
                    alerta == Alerta(s.id, msg, ciclo, "CRITICO")
                IN  IF alerta.raised
                    THEN [st1 EXCEPT !.resultado = alerta.error]
                    ELSE evaluar_desde_envia_antes(i + 1, ss, ns, ciclo,
                             [st1 EXCEPT
                                 !.historial = Append(@, alerta.obj),
                                 !.traza = @ \o <<[tipo |-> "alerta", sensor |-> i,
                                                    notificador |-> 0]>>])

\* GestorAlertas.evaluar_y_notificar from sensor i on: the loop over
\* self._sensores, stopped by the first exception
RECURSIVE evaluar_desde(_, _, _, _, _)
evaluar_desde(i, ss, ns, ciclo, st) ==
    IF i > Len(ss) THEN [st EXCEPT !.resultado = "ok"]
    ELSE
        LET s == ss[i]
        IN  IF ~en_alerta(s) THEN evaluar_desde(i + 1, ss, ns, ciclo, st)
            ELSE
                LET msg == Mensaje(s)
                    alerta == Alerta(s.id, msg, ciclo, "CRITICO")
                    env == EnviarATodos(1, ns, msg, i, ciclo)
                IN  IF alerta.raised
                    THEN [st EXCEPT !.resultado = alerta.error]
                    ELSE evaluar_desde(i + 1, ss, ns, ciclo,
                             [st EXCEPT
                                 !.historial = Append(@, alerta.obj),
                                 !.enviados = @ \o env.enviados,
                                 !.traza = @ \o <<[tipo |-> "alerta", sensor |-> i,
                                                    notificador |-> 0]>>
                                             \o env.traza])

\* the ids of the sensors in alert, tagged with the cycle that is starting
EnAlertaAhora(ss, ciclo) ==
    { <<ciclo, ss[i].id>> : i \in { k \in DOMAIN ss : en_alerta(ss[k]) } }

\* number of sensors of ss in alert
NumEnAlerta(ss) == Cardinality({ k \in DOMAIN ss : en_alerta(ss[k]) })

TotalLecturas ==
    LET RECURSIVE T(_)
        T(i) == IF i > Len(lecturas) THEN 0 ELSE Len(lecturas[i]) + T(i + 1)
    IN  T(1)

----------------------------------------------------------------------------
(* Initial states *)

Ids == <<"S1", "S2", "S3">>

\* every sensor a caller can construct from the small parameter sets
SensoresNuevos(id, ventanas, calibraciones) ==
    { SensorTemperatura(id, w, c, u) :
        w \in ventanas, c \in calibraciones, u \in Umbrales }
    \cup { SensorVibracion(id, w, c, u) :
        w \in ventanas, c \in calibraciones, u \in Umbrales }
    \cup { SensorPresion(id, w, c, r.max, r.min) :
        w \in ventanas, c \in calibraciones, r \in PresionRangos }

\* the sensors handed to a manager: one of each kind, window 2
SensoresGestor(id) ==
    { SensorTemperatura(id, 2, 0, 2),
      SensorVibracion(id, 2, 0, 2),
      SensorPresion(id, 2, 0, 2, 1) }

InitComun ==
    /\ historial = <<>>
    /\ enviados = <<>>
    /\ resultado = "none"
    /\ ciclos = 0
    /\ traza = <<>>
    /\ lecturas = [i \in DOMAIN sensores |-> <<>>]
    /\ racha = [n |-> 0, historial |-> 0, enviados |-> 0]
    /\ alertados = {}
    /\ construida = [llamada |-> FALSE]

\* GestorAlertas.__init__ over freshly constructed sensors and notifiers
Init ==
    /\ \E n \in 0..MaxSensores :
          sensores \in { ss \in [1..n -> UNION { SensoresGestor(Ids[i]) : i \in 1..n }] :
                           \A i \in 1..n : ss[i].id = Ids[i] }
    /\ \E m \in 0..MaxNotificadores : notificadores = SubSeq(Canales, 1, m)
    /\ InitComun

\* one freshly constructed sensor, no manager activity
InitSensor ==
    /\ sensores \in { <<s>> : s \in SensoresNuevos(Ids[1], 1..MaxVentana, Calibraciones) }
    /\ notificadores = <<>>
    /\ InitComun

\* no manager and no sensor: only Alerta objects are constructed
InitAlerta ==
    /\ sensores = <<>>
    /\ notificadores = <<>>
    /\ InitComun

----------------------------------------------------------------------------
(* Operations *)

\* leer when every sensor holds the same default list (_buffer = [] shared)
LeerBufferCompartido(i, valor) ==
    /\ sensores' = [j \in DOMAIN sensores |->
                      [sensores[j] EXCEPT !.buffer = leer(sensores[i], valor).buffer]]
    /\ lecturas' = [lecturas EXCEPT ![i] = Append(@, valor)]
    /\ resultado' = "ok"
    /\ traza' = <<>>
    /\ racha' = [n |-> 0, historial |-> Len(historial), enviados |-> Len(enviados)]
    /\ UNCHANGED <<notificadores, historial, enviados, ciclos, alertados, construida>>

\* sensores[i].leer(valor)
Leer(i, valor) ==
    /\ sensores' = [sensores EXCEPT ![i] = leer(@, valor)]
    /\ lecturas' = [lecturas EXCEPT ![i] = Append(@, valor)]
    /\ resultado' = "ok"
    /\ traza' = <<>>
    /\ racha' = [n |-> 0, historial |-> Len(historial), enviados |-> Len(enviados)]
    /\ UNCHANGED <<notificadores, historial, enviados, ciclos, alertados, construida>>

\* evaluar_y_notificar that also clears the window of each sensor found in alert
EvaluarVaciaVentanas ==
    /\ ciclos < MaxCiclos
    /\ LET st == evaluar_desde(1, sensores, notificadores, ciclos + 1,
                      [historial |-> historial, enviados |-> enviados,
                       traza |-> <<>>, resultado |-> "none"])
       IN  /\ historial' = st.historial
           /\ enviados' = st.enviados
           /\ traza' = st.traza
           /\ resultado' = st.resultado
    /\ ciclos' = ciclos + 1
    /\ racha' = [racha EXCEPT !.n = @ + 1]
    /\ alertados' = alertados \cup EnAlertaAhora(sensores, ciclos + 1)
    /\ sensores' = [i \in DOMAIN sensores |->
                      IF en_alerta(sensores[i])
                      THEN [sensores[i] EXCEPT !.buffer = <<>>]
                      ELSE sensores[i]]
    /\ UNCHANGED <<notificadores, lecturas, construida>>

\* gestor.evaluar_y_notificar()
Evaluar ==
    /\ ciclos < MaxCiclos
    /\ LET st == evaluar_desde(1, sensores, notificadores, ciclos + 1,
                      [historial |-> historial, enviados |-> enviados,
                       traza |-> <<>>, resultado |-> "none"])
       IN  /\ historial' = st.historial
           /\ enviados' = st.enviados
           /\ traza' = st.traza
           /\ resultado' = st.resultado
    /\ ciclos' = ciclos + 1
    /\ racha' = [racha EXCEPT !.n = @ + 1]
    /\ alertados' = alertados \cup EnAlertaAhora(sensores, ciclos + 1)
    /\ UNCHANGED <<sensores, notificadores, lecturas, construida>>

LeerGestor ==
    \E i \in DOMAIN sensores, valor \in ValoresGestor :
        /\ TotalLecturas < MaxLecturasGestor
        /\ Leer(i, valor)

LeerSensor ==
    \E i \in DOMAIN sensores, valor \in Valores :
        /\ TotalLecturas < MaxLecturas
        /\ Leer(i, valor)

\* the messages and timestamps handed to a directly constructed Alerta
MensajesAlerta == [sensor_id : {Ids[1], Ids[2]}, avg : {0 - 300, 0, 150, 8500}]

\* a = Alerta(sensor_id=..., mensaje=..., hora=..., nivel=...) called by a client
ConstruirAlerta ==
    \E sensor_id \in {Ids[1], Ids[2], Ids[3]}, mensaje \in MensajesAlerta,
       hora \in 1..MaxCiclos, nivel \in NivelAlerta :
        /\ construida' = [llamada |-> TRUE, sensor_id |-> sensor_id,
                          mensaje |-> mensaje, hora |-> hora, nivel |-> nivel,
                          res |-> Alerta(sensor_id, mensaje, hora, nivel)]
        /\ resultado' = IF Alerta(sensor_id, mensaje, hora, nivel).raised
                        THEN Alerta(sensor_id, mensaje, hora, nivel).error ELSE "ok"
        /\ UNCHANGED <<sensores, notificadores, historial, enviados, ciclos,
                       traza, lecturas, racha, alertados>>

Next == LeerGestor \/ Evaluar

NextSensor == LeerSensor

NextAlerta == ConstruirAlerta

Spec == Init /\ [][Next]_vars

SpecSensor == InitSensor /\ [][NextSensor]_vars

SpecAlerta == InitAlerta /\ [][NextAlerta]_vars

----------------------------------------------------------------------------
(* Properties *)

Min(a, b) == IF a < b THEN a ELSE b

SensoresDeTipo(tipo) == { i \in DOMAIN sensores : sensores[i].tipo = tipo }

\* C1: after N calls leer(r1..rN) on a sensor with window W and calibration c,
\* the buffer holds, oldest first, the last min(N, W) values ri + c, and its
\* length never exceeds W.
C1_VentanaDeslizante ==
    \A i \in DOMAIN sensores :
        LET s == sensores[i]
            N == Len(lecturas[i])
            k == Min(N, s.ventana)
        IN  /\ Len(s.buffer) = k
            /\ Len(s.buffer) <= s.ventana
            /\ \A j \in 1..k : s.buffer[j] = lecturas[i][N - k + j] + s.calibracion

\* a sensor with a calibration offset whose oldest readings were evicted
C1_Witness ==
    \E i \in DOMAIN sensores :
        /\ sensores[i].ventana >= 2
        /\ sensores[i].calibracion # 0
        /\ Len(lecturas[i]) > sensores[i].ventana
        /\ lecturas[i][1] # lecturas[i][Len(lecturas[i])]
        /\ Len(sensores[i].buffer) = sensores[i].ventana

\* C2: a cycle with K sensors in alert and M notifiers adds exactly K Alerts
\* to the history (one per in-alert sensor, level CRITICO, carrying the
\* sensor's id and message) and makes exactly K*M sends (one per in-alert
\* sensor per notifier, with that message).
C2_UnAlertaPorSensorEnAlerta ==
    [][ciclos' = ciclos + 1 =>
        LET K == NumEnAlerta(sensores)
            M == Len(notificadores)
            h0 == Len(historial)
            e0 == Len(enviados)
        IN  /\ Len(historial') = h0 + K
            /\ Len(enviados') = e0 + K * M
            /\ \A i \in DOMAIN sensores :
                 en_alerta(sensores[i]) =>
                   /\ Cardinality({ k \in (h0 + 1)..Len(historial') :
                        historial'[k].sensor_id = sensores[i].id }) = 1
                   /\ \A k \in (h0 + 1)..Len(historial') :
                        historial'[k].sensor_id = sensores[i].id =>
                          /\ historial'[k].nivel = "CRITICO"
                          /\ historial'[k].mensaje = Mensaje(sensores[i])
                   /\ \A j \in DOMAIN notificadores :
                        Cardinality({ k \in (e0 + 1)..Len(enviados') :
                          /\ enviados'[k].canal = notificadores[j]
                          /\ enviados'[k].mensaje = Mensaje(sensores[i]) }) = 1
    ]_vars

\* C3: after n consecutive cycles with no reading in between, every sensor
\* in alert has gained n history entries and n * (number of notifiers) sends.
C3_SinDeduplicacion ==
    \A i \in DOMAIN sensores :
        en_alerta(sensores[i]) =>
            /\ Cardinality({ k \in (racha.historial + 1)..Len(historial) :
                 historial[k].sensor_id = sensores[i].id }) = racha.n
            /\ Cardinality({ k \in (racha.enviados + 1)..Len(enviados) :
                 enviados[k].mensaje.sensor_id = sensores[i].id })
               = racha.n * Len(notificadores)

\* C4: no call of a core operation ends in an error: evaluar_y_notificar
\* always finishes its cycle, also when sensors are in alert.
C4_SinErrores == resultado \in {"none", "ok"}

\* C5: every history entry and every send belongs to a sensor that was in
\* alert when the cycle that produced it began; if no sensor was in alert at
\* any cycle, the history is empty and nothing was sent.
C5_SoloSensoresEnAlerta ==
    /\ \A k \in DOMAIN historial :
         <<historial[k].hora, historial[k].sensor_id>> \in alertados
    /\ \A k \in DOMAIN enviados :
         <<enviados[k].ciclo, enviados[k].mensaje.sensor_id>> \in alertados
    /\ alertados = {} => historial = <<>> /\ enviados = <<>>

\* cycles interleaved with readings over sensors and notifiers, none in alert
C5_Witness ==
    /\ ciclos >= 2
    /\ resultado = "ok"
    /\ racha.n = 1
    /\ TotalLecturas > 0
    /\ Len(sensores) = MaxSensores
    /\ notificadores # <<>>
    /\ alertados = {}
    /\ historial = <<>>
    /\ enviados = <<>>

\* C6: a Temperatura sensor is in alert iff its average is >= umbral
\* (an average equal to umbral is in alert).
C6_TemperaturaInclusiva ==
    \A i \in SensoresDeTipo("Temperatura") :
        LET s == sensores[i]
        IN  en_alerta(s) <=>
              IF s.buffer = <<>> THEN 0 >= s.umbral
              ELSE Sum(s.buffer) >= s.umbral * Len(s.buffer)

\* a Temperatura sensor whose average over several readings equals umbral
C6_Witness ==
    \E i \in SensoresDeTipo("Temperatura") :
        /\ Len(sensores[i].buffer) >= 2
        /\ sensores[i].buffer[1] # sensores[i].buffer[2]
        /\ Sum(sensores[i].buffer) = sensores[i].umbral * Len(sensores[i].buffer)
        /\ en_alerta(sensores[i])

\* C7: a Presion sensor is in alert iff its average is strictly below
\* presion_min or strictly above presion_max.
C7_PresionExclusiva ==
    \A i \in SensoresDeTipo("Presion") :
        LET s == sensores[i]
            n == IF s.buffer = <<>> THEN 1 ELSE Len(s.buffer)
        IN  en_alerta(s) <=>
              \/ Sum(s.buffer) < s.presion_min * n
              \/ Sum(s.buffer) > s.presion_max * n

\* a Presion sensor whose average equals presion_min, below presion_max
C7_Witness ==
    \E i \in SensoresDeTipo("Presion") :
        /\ sensores[i].buffer # <<>>
        /\ sensores[i].presion_min < sensores[i].presion_max
        /\ Sum(sensores[i].buffer) = sensores[i].presion_min * Len(sensores[i].buffer)
        /\ ~en_alerta(sensores[i])

\* C8: a Vibracion sensor is in alert iff the absolute value of its signed
\* average is >= rms_umbral, whatever calcular_rms() is.
C8_VibracionPromedioAbs ==
    \A i \in SensoresDeTipo("Vibracion") :
        LET s == sensores[i]
            n == IF s.buffer = <<>> THEN 1 ELSE Len(s.buffer)
        IN  en_alerta(s) <=> Abs(Sum(s.buffer)) >= s.rms_umbral * n

\* a Vibracion sensor in alert on a negative average
C8_Witness ==
    \E i \in SensoresDeTipo("Vibracion") :
        /\ Len(sensores[i].buffer) >= 2
        /\ Sum(sensores[i].buffer) < 0
        /\ sensores[i].rms_umbral > 0
        /\ en_alerta(sensores[i])

C10_PromedioVacio ==
    \A i \in DOMAIN sensores :
        sensores[i].buffer = <<>> => promedio(sensores[i]) = Cero

\* a cycle has evaluated a sensor that never ingested a reading
C10_Witness ==
    \E i \in DOMAIN sensores :
        /\ sensores[i].buffer = <<>>
        /\ lecturas[i] = <<>>
        /\ ciclos > 0
        /\ resultado = "ok"
        /\ promedio(sensores[i]) = Cero

\* C11: after any sequence of leer calls, promedio is the arithmetic mean of
\* exactly the values now in the buffer, which are the last min(N, W)
\* calibrated readings: evicted readings do not contribute.
C11_PromedioDelBuffer ==
    \A i \in DOMAIN sensores :
        LET s == sensores[i]
            N == Len(lecturas[i])
            k == Min(N, s.ventana)
            ultimas == [j \in 1..k |-> lecturas[i][N - k + j] + s.calibracion]
        IN  k > 0 =>
              /\ promedio(s).den > 0
              /\ promedio(s).num * Len(s.buffer) = Sum(s.buffer) * promedio(s).den
              /\ promedio(s).num * k = Sum(ultimas) * promedio(s).den

\* readings were evicted, and the average of all readings differs from the
\* average of the window
C11_Witness ==
    \E i \in DOMAIN sensores :
        LET s == sensores[i]
            N == Len(lecturas[i])
        IN  /\ s.ventana >= 2
            /\ N > s.ventana
            /\ Len(s.buffer) = s.ventana
            /\ promedio(s).den > 1
            /\ promedio(s).num * N # (Sum(lecturas[i]) + N * s.calibracion) * promedio(s).den

\* C12: an Alerta can be constructed from (sensor_id, mensaje, hora, nivel);
\* its four fields then hold exactly the given values, and es_critica() is
\* true iff nivel is CRITICO.
C12_AlertaConstruible ==
    construida.llamada =>
        /\ ~construida.res.raised
        /\ construida.res.obj.sensor_id = construida.sensor_id
        /\ construida.res.obj.mensaje = construida.mensaje
        /\ construida.res.obj.hora = construida.hora
        /\ construida.res.obj.nivel = construida.nivel
        /\ es_critica(construida.res.obj) <=> construida.nivel = "CRITICO"

\* position of the sensor with the given id in the manager's list
Posicion(id) == CHOOSE i \in DOMAIN sensores : sensores[i].id = id

\* C13: within one cycle every in-alert sensor, in registration order, gets
\* its Alerta and then one send per notifier in registration order: all the
\* events of sensor i precede those of any sensor j > i, and the Alertas a
\* cycle appends to the history are in sensor registration order.
C13_OrdenDeRegistro ==
    racha.n > 0 =>
        /\ \A i \in DOMAIN sensores :
             en_alerta(sensores[i]) =>
               /\ \E p \in DOMAIN traza :
                    traza[p].tipo = "alerta" /\ traza[p].sensor = i
               /\ \A j \in DOMAIN notificadores :
                    Cardinality({ p \in DOMAIN traza :
                        /\ traza[p].tipo = "envio"
                        /\ traza[p].sensor = i
                        /\ traza[p].notificador = j }) = 1
        /\ \A p, q \in DOMAIN traza :
             p < q =>
               \/ traza[p].sensor < traza[q].sensor
               \/ /\ traza[p].sensor = traza[q].sensor
                  /\ traza[p].notificador < traza[q].notificador
        /\ \A p, q \in DOMAIN historial :
             (p < q /\ historial[p].hora = historial[q].hora) =>
               Posicion(historial[p].sensor_id) < Posicion(historial[q].sensor_id)

C16_EvaluarNoTocaSensores ==
    [][ ciclos' # ciclos =>
          /\ sensores' = sensores
          /\ notificadores' = notificadores
          /\ \A i \in DOMAIN sensores :
               /\ sensores'[i].buffer = sensores[i].buffer
               /\ en_alerta(sensores'[i]) = en_alerta(sensores[i]) ]_vars

\* a cycle has just run over a sensor in alert and a sensor not in alert,
\* both holding readings
C16_Witness ==
    /\ racha.n >= 1
    /\ \E i, j \in DOMAIN sensores :
         /\ sensores[i].buffer # <<>>
         /\ sensores[j].buffer # <<>>
         /\ en_alerta(sensores[i])
         /\ ~en_alerta(sensores[j])
         /\ <<ciclos, sensores[i].id>> \in alertados

\* C17: leer on one sensor changes only that sensor's buffer: every other
\* sensor (its buffer included: default buffers are not shared), the
\* sensor's own id, window, calibration and thresholds, the history and the
\* notifier list stay as they were, and no send is made.
C17_LeerSoloSuBuffer ==
    [][ \A i \in DOMAIN sensores :
          lecturas'[i] # lecturas[i] =>
            /\ \A j \in DOMAIN sensores : j # i => sensores'[j] = sensores[j]
            /\ sensores'[i] = [sensores[i] EXCEPT !.buffer = sensores'[i].buffer]
            /\ DOMAIN sensores' = DOMAIN sensores
            /\ historial' = historial
            /\ enviados' = enviados
            /\ notificadores' = notificadores ]_vars

\* one sensor has ingested readings after a cycle while another one,
\* registered beside it, still has its empty default buffer
C17_Witness ==
    /\ racha.n = 0
    /\ ciclos >= 1
    /\ notificadores # <<>>
    /\ \E i, j \in DOMAIN sensores :
         /\ i # j
         /\ Len(lecturas[i]) >= 2
         /\ sensores[i].buffer # <<>>
         /\ lecturas[j] = <<>>
         /\ sensores[j].buffer = <<>>

\* C18: a sensor with no readings is judged on the average 0.0, so its
\* thresholds alone decide: a Presion sensor with presion_min > 0 is in
\* alert, a Temperatura sensor is in alert iff umbral <= 0, and a Vibracion
\* sensor iff rms_umbral <= 0.
C18_AlertaSinLecturas ==
    \A i \in DOMAIN sensores :
        LET s == sensores[i]
        IN  (s.buffer = <<>> /\ lecturas[i] = <<>>) =>
              CASE s.tipo = "Temperatura" -> (en_alerta(s) <=> s.umbral <= 0)
                [] s.tipo = "Vibracion"   -> (en_alerta(s) <=> s.rms_umbral <= 0)
                [] s.tipo = "Presion"     -> (s.presion_min > 0 => en_alerta(s))

\* a new Presion sensor with presion_min > 0, in alert before any reading
C18_Witness ==
    \E i \in SensoresDeTipo("Presion") :
        /\ lecturas[i] = <<>>
        /\ sensores[i].buffer = <<>>
        /\ sensores[i].presion_min > 0
        /\ sensores[i].presion_min <= sensores[i].presion_max
        /\ en_alerta(sensores[i])

\* number of events of the given kind among the first p events of the cycle
EventosHasta(p, tipo) == Cardinality({ q \in 1..p : traza[q].tipo = tipo })

====
